---- MODULE Spec2Model ----
(***************************************************************************)
(* bevy_simple_scroll_view (src/src/lib.rs): the per-frame chain of        *)
(* systems create_scroll_view, input_mouse_pressed_move,                   *)
(* input_touch_pressed_move, scroll_events, fling_update, scroll_update.   *)
(*                                                                         *)
(* An f32 is the integer sign * bits, bits being f32::to_bits without the  *)
(* sign bit: exponent field * 2^23 + fraction.  Its value is               *)
(* sign * Mant * 2^Expo.  The order of these integers is the order of f32  *)
(* and = on them is == on f32, +0.0 and -0.0 being the one value 0.        *)
(* +, -, *, / round to nearest, ties to even, as IEEE 754 binary32 does.   *)
(* The magnitudes of the model stay far below 2^127: infinities and NaN    *)
(* do not arise and are left out.                                          *)
(* Rust leaves the precision of f32::exp open.  It is taken to return an   *)
(* f32 next to e^x; which one is the build's choice, made once for a       *)
(* behaviour (libm) and not by the model.                                  *)
(* Option<f32> is the empty sequence (None) or a one-element sequence.     *)
(* Frames have dt > 0.                                                     *)
(*                                                                         *)
(* A ScrollView is spawned ahead of some frame.  A system touches only the *)
(* entities its query matches: the samplers and scroll_events need         *)
(* Children and Interaction, fling_update needs Children.  When the        *)
(* insert(Interaction::None) that create_scroll_view queues is applied     *)
(* depends on the Bevy release the crate is built against, which the       *)
(* source does not fix: at a sync point right after create_scroll_view     *)
(* where chain() inserts one (0.13 on), else when the schedule ends.  Both *)
(* builds are modelled: the schedule takes either way when commands are    *)
(* queued, which in a behaviour happens on a single frame, the one the     *)
(* ScrollViews are spawned ahead of.                                       *)
(***************************************************************************)
EXTENDS Integers, Sequences, FiniteSets, TLC

\* ------------------------------------------------------------------ bounds
MaxFrames == 3
MaxInputEvents == 2      \* MouseWheel events and touch samples of a behaviour

\* ------------------------------------------------------- f32 arithmetic
MantBits == 24           \* significand of f32, the hidden bit included
MinExp == -149           \* exponent of the last place of the subnormals
Guard == 6               \* extra places carried by an addition before it rounds

Pow2(n) == 2 ^ n
Hidden == Pow2(MantBits - 1)

Abs(x) == IF x < 0 THEN -x ELSE x
Sgn(x) == IF x < 0 THEN -1 ELSE IF x > 0 THEN 1 ELSE 0

\* number of binary places of n, 0 <= n < 2^31
RECURSIVE BitLenFrom(_, _)
BitLenFrom(n, k) == IF k = 0 \/ n >= Pow2(k - 1) THEN k ELSE BitLenFrom(n, k - 1)
BitLen(n) == BitLenFrom(n, 31)

\* +0.0 and -0.0, which no comparison of the program tells apart
Zero == 0

\* significand and exponent of a: |a| = Mant(a) * 2^Expo(a), Mant(a) < 2^23
\* only for the subnormals, whose exponent field is 0
Mant(a) == IF Abs(a) < Hidden THEN Abs(a) ELSE Hidden + (Abs(a) % Hidden)
Expo(a) == IF Abs(a) < Hidden THEN MinExp ELSE MinExp - 1 + (Abs(a) \div Hidden)

\* the f32 sign * m * 2^e, for m < 2^24 and e = MinExp, or 2^23 <= m <= 2^24
\* and e >= MinExp (m = 2^24 carries into the exponent field)
F32(sign, m, e) == sign * ((e - MinExp) * Hidden + m)

\* the f32 nearest to sign * (n + t) * 2^e, ties to even: n a natural below
\* 2^31, t = 0 or, when sticky, some fraction strictly between 0 and 1
RoundF32(sign, n, e, sticky) ==
    IF n = 0 THEN Zero
    ELSE LET lead == e + BitLen(n) - MantBits
             t == IF lead > MinExp THEN lead ELSE MinExp
             r == t - e
         IN IF r <= 0 THEN F32(sign, n * Pow2(-r), t)
            ELSE IF r > 31 THEN Zero
            ELSE IF r = 31
            THEN (IF n > Pow2(30) \/ (n = Pow2(30) /\ sticky)
                  THEN F32(sign, 1, t) ELSE Zero)
            ELSE LET q == n \div Pow2(r)
                     rem == n % Pow2(r)
                     half == Pow2(r - 1)
                     up == rem > half \/ (rem = half /\ (sticky \/ q % 2 = 1))
                 IN F32(sign, IF up THEN q + 1 ELSE q, t)

FNeg(a) == -a
FAbs(a) == Abs(a)

\* a < b, a <= b: the order of f32 is the order of sign * bits
FLt(a, b) == a < b
FLe(a, b) == a <= b

\* |a| with a full significand: a subnormal is shifted up, a # 0
Normal(a) ==
    IF Abs(a) >= Hidden THEN [m |-> Mant(a), e |-> Expo(a)]
    ELSE [m |-> Abs(a) * Pow2(MantBits - BitLen(Abs(a))),
          e |-> MinExp - (MantBits - BitLen(Abs(a)))]

\* a + b for |a| >= |b|
AddOrdered(a, b) ==
    LET d == Expo(a) - Expo(b)
        hi == Mant(a) * Pow2(Guard)
        low == Mant(b) * Pow2(Guard)
        lo == IF d > 30 THEN 0 ELSE low \div Pow2(d)
        sticky == IF d > 30 THEN b # 0 ELSE low % Pow2(d) # 0
        n == IF Sgn(a) = Sgn(b) \/ b = 0 THEN hi + lo
             ELSE IF sticky THEN hi - lo - 1 ELSE hi - lo
    IN RoundF32(Sgn(a), n, Expo(a) - Guard, sticky)

\* a + b, a - b
FAdd(a, b) == IF Abs(a) < Abs(b) THEN AddOrdered(b, a) ELSE AddOrdered(a, b)
FSub(a, b) == FAdd(a, -b)

\* a * b: the 48-place product of the significands, formed from 12-place
\* halves, its upper 30 places kept and the rest remembered as sticky
HalfWord == 4096
FMul(a, b) ==
    LET x == Normal(a)
        y == Normal(b)
        ah == x.m \div HalfWord
        al == x.m % HalfWord
        bh == y.m \div HalfWord
        bl == y.m % HalfWord
        mid == ah * bl + al * bh + (al * bl) \div HalfWord
        low == (al * bl) % HalfWord
    IN IF a = 0 \/ b = 0 THEN Zero
       ELSE RoundF32(Sgn(a) * Sgn(b), ah * bh * 64 + mid \div 64,
                     x.e + y.e + 18, mid % 64 # 0 \/ low # 0)

\* floor(n * 2^k / d) and whether a remainder is left, by long division,
\* four places at a step (d < 2^27, n < d); <<quotient, remainder # 0>>
RECURSIVE LongDiv(_, _, _, _)
LongDiv(q, n, d, k) ==
    IF k = 0 THEN <<q, n # 0>>
    ELSE LongDiv(q * 16 + (n * 16) \div d, (n * 16) % d, d, k - 4)

\* a / b, b # 0: 28 places of the quotient of the significands
FDiv(a, b) ==
    LET x == Normal(a)
        y == Normal(b)
        r == LongDiv(x.m \div y.m, x.m % y.m, y.m, 28)
    IN IF a = 0 THEN Zero
       ELSE RoundF32(Sgn(a) * Sgn(b), r[1], x.e - y.e - 28, r[2])

\* f32::min, f32::max
FMin(a, b) == IF FLt(b, a) THEN b ELSE a
FMax(a, b) == IF FLt(a, b) THEN b ELSE a

\* a clamp that forgets the lower bound
ClampUpperOnly(x, lo, hi) == IF FLt(hi, x) THEN hi ELSE x

\* f32::clamp(self, min, max), min <= max
Clamp(x, lo, hi) == IF FLt(x, lo) THEN lo ELSE IF FLt(hi, x) THEN hi ELSE x

\* the f32 nearest to an integer (an integer literal, `as f32` of an integer
\* below 2^31), and the f32 nearest to the ratio n / d of two integers below
\* 2^24 (a decimal literal such as 4.2 = 42 / 10)
FromInt(n) == RoundF32(Sgn(n), Abs(n), 0, FALSE)
FromRatio(n, d) == FDiv(FromInt(n), FromInt(d))

\* the sign of a: -1, 0 or 1
FSgn(a) == Sgn(a)


\* ------------------------------------------------------------ f32::exp
\* e^x is summed as a power series on naturals of four 14-place limbs, the
\* least significant first, in units of 2^-42.  Rust leaves the precision of
\* f32::exp open; it is taken to return an f32 next to e^x, its error below
\* one unit in the last place, as the expf of the C libraries does.  Which of
\* the f32 next to e^x a build returns is not fixed by the source.
Limb == 16384
ExpTerms == 48
BigOne == <<0, 0, 0, 1>>
BigZero == <<0, 0, 0, 0>>

BigAdd(a, b) ==
    LET s1 == a[1] + b[1]
        s2 == a[2] + b[2] + s1 \div Limb
        s3 == a[3] + b[3] + s2 \div Limb
    IN <<s1 % Limb, s2 % Limb, s3 % Limb, a[4] + b[4] + s3 \div Limb>>

\* a - b for a >= b
BigSub(a, b) ==
    LET s1 == Limb + a[1] - b[1]
        s2 == Limb + a[2] - b[2] - (1 - s1 \div Limb)
        s3 == Limb + a[3] - b[3] - (1 - s2 \div Limb)
    IN <<s1 % Limb, s2 % Limb, s3 % Limb, a[4] - b[4] - (1 - s3 \div Limb)>>

\* a * b, the places below 2^-42 cut off
BigMul(a, b) ==
    LET s0 == a[1] * b[1]
        s1 == a[1] * b[2] + a[2] * b[1] + s0 \div Limb
        s2 == a[1] * b[3] + a[2] * b[2] + a[3] * b[1] + s1 \div Limb
        s3 == a[1] * b[4] + a[2] * b[3] + a[3] * b[2] + a[4] * b[1] + s2 \div Limb
        s4 == a[2] * b[4] + a[3] * b[3] + a[4] * b[2] + s3 \div Limb
        s5 == a[3] * b[4] + a[4] * b[3] + s4 \div Limb
    IN <<s3 % Limb, s4 % Limb, s5 % Limb, a[4] * b[4] + s5 \div Limb>>

\* a / k for a natural k below 2^14, cut off
BigDiv(a, k) ==
    LET r4 == a[4] % k
        r3 == (r4 * Limb + a[3]) % k
        r2 == (r3 * Limb + a[2]) % k
    IN <<(r2 * Limb + a[1]) \div k, (r3 * Limb + a[2]) \div k,
         (r4 * Limb + a[3]) \div k, a[4] \div k>>

\* |x| in units of 2^-42, for |x| < 2^14
BigOf(x) ==
    LET s == Expo(x) + 42
        m == IF s < 0 THEN Mant(x) \div Pow2(-s) ELSE Mant(x)
        b == IF s < 0 THEN 0 ELSE s % 14
        t0 == (m % Limb) * Pow2(b)
        t1 == (m \div Limb) * Pow2(b) + t0 \div Limb
    IN CASE s < 14 -> <<t0 % Limb, t1 % Limb, t1 \div Limb, 0>>
         [] s \in 14..27 -> <<0, t0 % Limb, t1 % Limb, t1 \div Limb>>
         [] s \in 28..41 /\ t1 < Limb -> <<0, 0, t0 % Limb, t1>>

\* the terms x^k / k! from term = x^k / k! on added to sums = <<even, odd>>,
\* those of even and those of odd k summed apart until a term is cut off to 0
\* (the test of sums has the running sums reduced at every step)
RECURSIVE ExpSum(_, _, _, _)
ExpSum(x, k, term, sums) ==
    IF k > ExpTerms \/ term = BigZero \/ sums = <<>> THEN sums
    ELSE ExpSum(x, k + 1, BigDiv(BigMul(term, x), k + 1),
                IF k % 2 = 0 THEN <<BigAdd(sums[1], term), sums[2]>>
                ELSE <<sums[1], BigAdd(sums[2], term)>>)

\* the series of e^x for |x| <= 4.  Every product and quotient of a term is
\* cut off below 2^-42, a term of error e handing on at most 4e/(k + 1) + 2;
\* over all terms that stays below ExpErr units of 2^-42
ExpErr == <<256, 0, 0, 0>>
ExpSeries(x) ==
    LET sums == ExpSum(BigOf(x), 0, BigOne, <<BigZero, BigZero>>)
    IN CASE x >= 0 /\ FLe(x, FromInt(4)) -> BigAdd(sums[1], sums[2])
         [] x < 0 /\ FLe(FromInt(-4), x) -> BigSub(sums[1], sums[2])

\* the leading 29 or 30 places of a >= 2^-28 as a natural n with a = (n + t)
\* * 2^e, 0 <= t < 1, and whether t > 0
RECURSIVE BigTop(_, _)
BigTop(a, t) == IF t = 1 \/ a[t] # 0 THEN t ELSE BigTop(a, t - 1)
BigLead(a) ==
    LET p == <<0, 0>> \o a
        t == BigTop(p, 6)
        g == IF 16 - BitLen(p[t]) > 14 THEN 14 ELSE 16 - BitLen(p[t])
        rest == {i \in 1..(t - 3) : p[i] # 0}
    IN [n |-> (p[t] * Limb + p[t - 1]) * Pow2(g) + p[t - 2] \div Pow2(14 - g),
        e |-> 14 * (t - 3) - 70 + (14 - g),
        cut |-> p[t - 2] % Pow2(14 - g) # 0 \/ rest # {}]

\* the largest f32 not above a and the smallest f32 not below a, a >= 2^-28;
\* of two positive f32 next to each other the bits differ by 1
BigFloor(a) ==
    LET b == BigLead(a)
        r == BitLen(b.n) - MantBits
    IN F32(1, b.n \div Pow2(r), b.e + r)
BigCeil(a) ==
    LET b == BigLead(a)
        r == BitLen(b.n) - MantBits
    IN IF b.cut \/ b.n % Pow2(r) # 0 THEN BigFloor(a) + 1 ELSE BigFloor(a)

\* the f32 that f32::exp(x) can return: those next to e^x, e^x lying within
\* ExpErr of the series
ExpRange(x) ==
    BigFloor(BigSub(ExpSeries(x), ExpErr))..BigCeil(BigAdd(ExpSeries(x), ExpErr))

\* Duration::as_secs_f32 of a frame time of ms milliseconds:
\* secs as f32 + nanos as f32 / 1e9
Secs(ms) ==
    FAdd(FromInt(ms \div 1000),
         FDiv(FromInt((ms % 1000) * 1000000), FromInt(1000000000)))

\* the three frame times the model evaluates (16 ms, 125 ms and 500 ms) and
\* the friction of ScrollView::default
FrameTimes == {Secs(16), Secs(125), Secs(500)}
Friction == FromRatio(42, 10)

\* the series summed once for the arguments that friction and the frame times
\* give, with either sign
ExpArgs == {FMul(f, d) : f \in {Friction, FNeg(Friction)}, d \in FrameTimes}
ExpTable == [x \in ExpArgs |-> ExpRange(x)]
ExpValues(x) == IF x \in ExpArgs THEN ExpTable[x] ELSE ExpRange(x)

\* the constants 16.0 of fling_update, 2.0 of the samplers
FlingThreshold == FromInt(16)
Two == FromInt(2)

\* ---------------------------------------------------------------- state
VARIABLES
    view,          \* view id -> ScrollView
    children,      \* view id -> Children: the child entities, <<>> when the
                   \* entity has no child and so no Children component
    content,       \* content id -> ScrollableContent
    changed,       \* content id -> ScrollableContent changed since scroll_update last ran
    top,           \* content id -> style.top: <<>> (Val::Auto) or <<px>>
    interaction,   \* view id -> Interaction, "Absent" without the component
    added,         \* view id -> Added<ScrollView> not yet seen by create_scroll_view
    queued,        \* views with a queued insert(Interaction::None)
    viewStyle,     \* view id -> the Style fields create_scroll_view writes
    nodeH,         \* view id -> Node::size().y of the viewport
    contentH,      \* content id -> Node::size().y of the content
    dt,            \* Time::delta_seconds() of the current frame
    cursor,        \* Window::cursor_position().y, when the pointer sampler ran last
    touches,       \* pressed touches' delta().y, when the touch sampler ran last
    wheelTrace,    \* content after each MouseWheel event, when scroll_events ran last
    before,        \* view and content as they were before the system that ran last
    frameStart,    \* view as the last completed frame left it
    grown,         \* some content has been taller than its viewport
    prevPressed,   \* the views that were pressed during the last completed frame
    pc,            \* next system of the chain
    frame,         \* number of frames begun
    inputCount,    \* number of MouseWheel events and touch samples so far
    libm           \* argument -> what f32::exp returns in this build

vars == <<view, children, content, changed, top, interaction, added, queued,
          viewStyle, nodeH, contentH, dt, cursor, touches, wheelTrace, before,
          frameStart, grown, prevPressed, pc, frame, inputCount, libm>>

None == <<>>
Some(x) == <<x>>

Views == DOMAIN view
Contents == DOMAIN content

\* a child entity that carries no ScrollableContent
PlainChild == 0

\* lines 86, 120, 146: the views the queries of the samplers and of
\* scroll_events match; line 184: the views the query of fling_update matches
InputQuery(v) == children[v] # <<>> /\ interaction[v] # "Absent"
FlingQuery(v) == children[v] # <<>>

\* ----------------------------------------------------- input domains
DTs == {Secs(125)}                           \* 0.125 s, one of FrameTimes
Interactions == {"None", "Hovered", "Pressed"}
CursorYs == {FromInt(0), FromInt(50)}
TouchDeltas == {FromInt(4)}
ViewportH == FromInt(100)
ContentHs == {FromInt(50), FromInt(300)}
ScrollSpeeds == {FromInt(200), FromInt(-200)}
ChildSeqs == {<<>>, <<PlainChild>>, <<1>>, <<1, 2>>}
WheelEvents ==
    [unit : {"Line"}, y : {FromInt(1), FromInt(-1)}]
        \cup [unit : {"Pixel"}, y : {FromInt(5)}]

\* the arguments fling_update hands to f32::exp, -friction * dt, and the
\* builds: f32::exp is a function, every value of it one of ExpValues
LibmArgs == {FMul(FNeg(Friction), d) : d \in DTs}
Libms ==
    {m \in [LibmArgs -> UNION {ExpValues(x) : x \in LibmArgs}] :
        \A x \in LibmArgs : m[x] \in ExpValues(x)}

\* f32::exp
Exp(x) == libm[x]

RECURSIVE SeqsUpTo(_, _)
SeqsUpTo(S, n) ==
    IF n = 0 THEN {<<>>}
    ELSE LET shorter == SeqsUpTo(S, n - 1)
         IN shorter \cup {Append(s, x) : s \in shorter, x \in S}

\* ScrollView::default, with the public scroll_speed field set by the creator
ScrollViewDefault(speed) ==
    [scroll_speed |-> speed,
     friction     |-> Friction,
     old_mouse_y  |-> None,
     velocity     |-> Zero,
     max_scroll   |-> Zero]

\* ScrollableContent::default
ScrollableContentDefault == [pos_y |-> Zero]

\* Style::default, the fields create_scroll_view writes
StyleDefault ==
    [overflow       |-> "visible",
     align_items    |-> "Default",
     align_self     |-> "Auto",
     flex_direction |-> "Row"]

\* lines 77-80
ScrollViewStyle(style) ==
    [style EXCEPT
       !.overflow = "clip",
       !.align_items = "Start",
       !.align_self = "Stretch",
       !.flex_direction = "Row"]


\* ------------------------------------------------------ Bounds Resolver
\* lines 107-113 / 134-139: view.max_scroll = 0.0, then the minimum over the
\* ScrollableContent children of -(content height - viewport height).max(0.0);
\* a child without ScrollableContent is passed over
RECURSIVE ResolveMaxScroll(_, _, _, _)
ResolveMaxScroll(kids, hv, ch, acc) ==
    IF kids = <<>> THEN acc
    ELSE ResolveMaxScroll(Tail(kids), hv, ch,
                          IF Head(kids) \in DOMAIN ch
                          THEN FMin(acc, FNeg(FMax(FSub(ch[Head(kids)], hv), Zero)))
                          ELSE acc)

\* the drag sample added to the velocity without the halving
SmoothVelocityNoHalving(velocity, delta, delta_t) ==
    FAdd(velocity, FDiv(delta, delta_t))

\* (view.velocity + delta / time.delta_seconds()) / 2.0
SmoothVelocity(velocity, delta, delta_t) ==
    FDiv(FAdd(velocity, FDiv(delta, delta_t)), Two)

\* ------------------------------------------- input_mouse_pressed_move
\* delta of lines 100-104
MouseDelta(old_mouse_y, pos_y) ==
    IF old_mouse_y # None THEN FSub(pos_y, old_mouse_y[1]) ELSE Zero

\* a release that also resets the velocity
MouseViewResetOnRelease(vw, kids, inter, hv, ch, pos_y, delta_t) ==
    IF inter # "Pressed"
    THEN [vw EXCEPT !.old_mouse_y = None, !.velocity = Zero]
    ELSE [vw EXCEPT
            !.old_mouse_y = Some(pos_y),
            !.velocity = SmoothVelocity(vw.velocity,
                                        MouseDelta(vw.old_mouse_y, pos_y), delta_t),
            !.max_scroll = ResolveMaxScroll(kids, hv, ch, Zero)]

\* a sampler that lowers the stored bound without resetting it first
MouseViewCarryMaxScroll(vw, kids, inter, hv, ch, pos_y, delta_t) ==
    IF inter # "Pressed"
    THEN [vw EXCEPT !.old_mouse_y = None]
    ELSE [vw EXCEPT
            !.old_mouse_y = Some(pos_y),
            !.velocity = SmoothVelocity(vw.velocity,
                                        MouseDelta(vw.old_mouse_y, pos_y), delta_t),
            !.max_scroll = ResolveMaxScroll(kids, hv, ch, vw.max_scroll)]

\* the loop body of lines 95-113 for one view
MouseView(vw, kids, inter, hv, ch, pos_y, delta_t) ==
    IF inter # "Pressed"
    THEN [vw EXCEPT !.old_mouse_y = None]
    ELSE [vw EXCEPT
            !.old_mouse_y = Some(pos_y),
            !.velocity = SmoothVelocity(vw.velocity,
                                        MouseDelta(vw.old_mouse_y, pos_y), delta_t),
            !.max_scroll = ResolveMaxScroll(kids, hv, ch, Zero)]

\* a sampler that runs without a cursor position, the pointer taken to rest
\* at the anchor
MouseSystemWithoutCursor(vws, pos) ==
    [v \in DOMAIN vws |->
        IF InputQuery(v)
        THEN MouseView(vws[v], children[v], interaction[v], nodeH[v], contentH,
                       IF pos # None THEN pos[1]
                       ELSE IF vws[v].old_mouse_y # None THEN vws[v].old_mouse_y[1]
                       ELSE Zero,
                       dt)
        ELSE vws[v]]

\* the whole system: nothing happens without a cursor position, and nothing
\* to a view the query does not match
MouseSystem(vws, pos) ==
    IF pos = None THEN vws
    ELSE [v \in DOMAIN vws |->
            IF InputQuery(v)
            THEN MouseView(vws[v], children[v], interaction[v], nodeH[v],
                           contentH, pos[1], dt)
            ELSE vws[v]]

\* ------------------------------------------- input_touch_pressed_move
\* the loop body of lines 129-139 for one touch and one view
TouchView(vw, kids, inter, hv, ch, touch_dy, delta_t) ==
    IF inter # "Pressed"
    THEN vw
    ELSE [vw EXCEPT
            !.velocity = SmoothVelocity(vw.velocity, touch_dy, delta_t),
            !.max_scroll = ResolveMaxScroll(kids, hv, ch, Zero)]

\* the whole system: every pressed touch, in iteration order, against every
\* view the query matches
RECURSIVE TouchSystem(_, _)
TouchSystem(vws, ts) ==
    IF ts = <<>> THEN vws
    ELSE TouchSystem(
           [v \in DOMAIN vws |->
              IF InputQuery(v)
              THEN TouchView(vws[v], children[v], interaction[v], nodeH[v],
                             contentH, Head(ts), dt)
              ELSE vws[v]],
           Tail(ts))

\* a sampler that also drags the content along with the pointer
MouseContentsDragged(cont, pos) ==
    IF pos = None THEN cont
    ELSE [c \in DOMAIN cont |->
            IF \E v \in Views : /\ interaction[v] = "Pressed"
                                /\ \E i \in 1..Len(children[v]) : children[v][i] = c
            THEN LET v == CHOOSE w \in Views :
                              \E i \in 1..Len(children[w]) : children[w][i] = c
                 IN [cont[c] EXCEPT
                       !.pos_y = FAdd(@, MouseDelta(view[v].old_mouse_y, pos[1]))]
            ELSE cont[c]]

\* lines 109-113: the sampler fetches each content child for the height of its
\* Node alone; the ScrollableContent of the query item is never dereferenced
MouseContents(cont, pos) == cont

\* lines 135-139: the same in the touch sampler
TouchContents(cont, ts) == cont

\* ------------------------------------------------------- scroll_events
\* pixel units rescaled once more, as line units are
WheelUnitYScaledAlike(ev, delta_t, scroll_speed) ==
    FMul(FMul(ev.y, delta_t), scroll_speed)

\* lines 153-158: the first scaling, applied to line units only
WheelUnitY(ev, delta_t, scroll_speed) ==
    IF ev.unit = "Line" THEN FMul(FMul(ev.y, delta_t), scroll_speed) ELSE ev.y

\* line 166: the second scaling, applied to both units
WheelDelta(ev, delta_t, scroll_speed) ==
    FMul(FMul(WheelUnitY(ev, delta_t, scroll_speed), delta_t), scroll_speed)

\* the new offset left unclamped
WheelChildNoClamp(pos_y, y, hc, container_height) == FAdd(pos_y, y)

\* lines 167-170 for one child
WheelChild(pos_y, y, hc, container_height) ==
    Clamp(FAdd(pos_y, y), FNeg(FMax(FSub(hc, container_height), Zero)), Zero)

\* lines 164-172: the children of one hovered view, those without
\* ScrollableContent passed over
RECURSIVE WheelChildren(_, _, _, _, _)
WheelChildren(cont, kids, y, hv, ch) ==
    IF kids = <<>> THEN cont
    ELSE LET c == Head(kids)
         IN WheelChildren(
              IF c \in DOMAIN cont
              THEN [cont EXCEPT
                      ![c].pos_y = WheelChild(cont[c].pos_y, y, ch[c], hv)]
              ELSE cont,
              Tail(kids), y, hv, ch)

\* wheel events reaching every view that is hovered or pressed
WheelTargetsNotNone(inter) == {v \in DOMAIN inter : inter[v] # "None"}

\* the views a wheel event reaches (line 159)
WheelTargets(inter) == {v \in DOMAIN inter : inter[v] = "Hovered"}

\* lines 152-173: one event against every view, views in index order
RECURSIVE WheelEvent(_, _, _)
WheelEvent(cont, ev, v) ==
    IF v > Cardinality(Views) THEN cont
    ELSE WheelEvent(
           IF InputQuery(v) /\ v \in WheelTargets(interaction)
           THEN WheelChildren(cont, children[v],
                              WheelDelta(ev, dt, view[v].scroll_speed),
                              nodeH[v], contentH)
           ELSE cont,
           ev, v + 1)

\* the content after each event of the drained sequence
RECURSIVE WheelRun(_, _)
WheelRun(cont, evs) ==
    IF evs = <<>> THEN <<>>
    ELSE LET next == WheelEvent(cont, Head(evs), 1)
         IN <<next>> \o WheelRun(next, Tail(evs))

\* the contents whose ScrollableContent is mutably dereferenced (line 167-169)
WheelTouched(evs) ==
    IF evs = <<>> THEN {}
    ELSE {c \in Contents :
            \E v \in WheelTargets(interaction) :
               \E i \in 1..Len(children[v]) : children[v][i] = c}

\* ------------------------------------------------------- calc_velocity
\* lines 204-207, e being what (friction * delta_t).exp() and
\* (delta_t * friction).exp() return: the products are the same f32, so the
\* two calls return the same
Integrated(value, velocity, friction, e) ==
    <<FAdd(FSub(value, FDiv(velocity, friction)),
           FMul(FDiv(velocity, friction), e)),
      FMul(velocity, e)>>

\* an integrator that moves the value and leaves the velocity as it was
calc_velocityNoDecay(value, velocity, friction, delta_t) ==
    <<Integrated(value, velocity, friction, Exp(FMul(friction, delta_t)))[1],
      velocity>>

\* lines 203-208
calc_velocity(value, velocity, friction, delta_t) ==
    Integrated(value, velocity, friction, Exp(FMul(friction, delta_t)))

\* -------------------------------------------------------- fling_update
\* a threshold that lets exactly 16.0 go on integrating
FlingActiveInclusive(velocity) == FLe(FlingThreshold, FAbs(velocity))

\* line 191
FlingActive(velocity) == FLt(FlingThreshold, FAbs(velocity))

\* the integrator of the displayed formula, the friction field positive in
\* velocity / friction: value - velocity/friction + velocity/friction * e
FlingStepPositiveFriction(pos_y, vw, delta_t) ==
    <<FAdd(FSub(pos_y, FDiv(vw.velocity, vw.friction)),
           FMul(FDiv(vw.velocity, vw.friction),
                Exp(FMul(FNeg(vw.friction), delta_t)))),
      FMul(vw.velocity, Exp(FMul(FNeg(vw.friction), delta_t)))>>

\* line 192: calc_velocity called with the negated friction field
FlingStep(pos_y, vw, delta_t) ==
    calc_velocity(pos_y, vw.velocity, FNeg(vw.friction), delta_t)

\* lines 191-198 for the child c, r being what calc_velocity returns for it:
\* the view's velocity rewritten and the content moved and clamped, or the
\* velocity set to 0; st = [view, content, touched]
FlingChild(st, c, r) ==
    IF c \notin DOMAIN st.content THEN st
    ELSE IF FlingActive(st.view.velocity)
    THEN [view    |-> [st.view EXCEPT !.velocity = r[2]],
          content |-> [st.content EXCEPT
                         ![c].pos_y = Clamp(r[1], st.view.max_scroll, Zero)],
          touched |-> st.touched \cup {c}]
    ELSE [st EXCEPT !.view = [st.view EXCEPT !.velocity = Zero]]

\* lines 189-199: the ScrollableContent children of one view (iter_many_mut
\* passes over the others), the view's velocity rewritten for each child and
\* read again for the next
RECURSIVE FlingChildren(_, _, _)
FlingChildren(st, kids, delta_t) ==
    IF kids = <<>> THEN st
    ELSE FlingChildren(
           FlingChild(st, Head(kids),
                      FlingStep(st.content[Head(kids)].pos_y, st.view, delta_t)),
           Tail(kids), delta_t)

\* the view v and the contents as the loop body left them in r, taken over
\* into st = [views, content, touched]
FlingView(st, v, r) ==
    [views   |-> [st.views EXCEPT ![v] = r.view],
     content |-> r.content,
     touched |-> r.touched]

\* the state of view v handed to the loop over its children
FlingOf(st, v) ==
    [view |-> st.views[v], content |-> st.content, touched |-> st.touched]

\* an integrator that leaves the views being dragged alone
RECURSIVE FlingSystemSkipPressed(_, _)
FlingSystemSkipPressed(st, v) ==
    IF v > Cardinality(DOMAIN st.views) THEN st
    ELSE FlingSystemSkipPressed(
           FlingView(st, v,
                     IF interaction[v] = "Pressed" \/ ~FlingQuery(v)
                     THEN FlingOf(st, v)
                     ELSE FlingChildren(FlingOf(st, v), children[v], dt)),
           v + 1)

\* line 188: every view the query matches, in index order
RECURSIVE FlingSystem(_, _)
FlingSystem(st, v) ==
    IF v > Cardinality(DOMAIN st.views) THEN st
    ELSE FlingSystem(
           FlingView(st, v,
                     IF FlingQuery(v)
                     THEN FlingChildren(FlingOf(st, v), children[v], dt)
                     ELSE FlingOf(st, v)),
           v + 1)

\* -------------------------------------------------------- scroll_update
\* a publisher that reacts to added contents only
PublishTopAddedOnly(tp, cont, chg) ==
    [c \in DOMAIN tp |-> IF tp[c] = None THEN Some(cont[c].pos_y) ELSE tp[c]]

\* lines 177-181: style.top = Val::Px(pos_y) for the changed contents
PublishTop(tp, cont, chg) ==
    [c \in DOMAIN tp |-> IF chg[c] THEN Some(cont[c].pos_y) ELSE tp[c]]

\* ----------------------------------------------------------------- Init
\* newly spawned entities: view v with the children kidSeqs[v] and the
\* Interaction inters[v], not yet seen by create_scroll_view; the contents are
\* newly added, every field is at its default
Fresh(kidSeqs, speeds, heights, inters) ==
    [view        |-> [v \in DOMAIN kidSeqs |-> ScrollViewDefault(speeds[v])],
     children    |-> kidSeqs,
     content     |-> [c \in DOMAIN heights |-> ScrollableContentDefault],
     changed     |-> [c \in DOMAIN heights |-> TRUE],
     top         |-> [c \in DOMAIN heights |-> None],
     interaction |-> inters,
     added       |-> [v \in DOMAIN kidSeqs |-> TRUE],
     viewStyle   |-> [v \in DOMAIN kidSeqs |-> StyleDefault],
     nodeH       |-> [v \in DOMAIN kidSeqs |-> ViewportH],
     contentH    |-> heights,
     grown       |-> \E v \in DOMAIN kidSeqs : \E i \in 1..Len(kidSeqs[v]) :
                        /\ kidSeqs[v][i] \in DOMAIN heights
                        /\ FLt(ViewportH, heights[kidSeqs[v][i]])]

\* the App after ScrollViewPlugin::build: the chain is scheduled, the world
\* holds no ScrollView yet
Init ==
    /\ view = <<>>
    /\ children = <<>>
    /\ content = <<>>
    /\ changed = <<>>
    /\ top = <<>>
    /\ interaction = <<>>
    /\ added = <<>>
    /\ queued = {}
    /\ viewStyle = <<>>
    /\ nodeH = <<>>
    /\ contentH = <<>>
    /\ frameStart = <<>>
    /\ before = [view |-> <<>>, content |-> <<>>]
    /\ grown = FALSE
    /\ prevPressed = {}
    /\ dt \in DTs
    /\ cursor = None
    /\ touches = <<>>
    /\ wheelTrace = <<>>
    /\ pc = "begin"
    /\ frame = 0
    /\ inputCount = 0
    /\ libm \in Libms

\* -------------------------------------------------------------- actions
Snapshot == [view |-> view, content |-> content]

\* the contents among the children of a view
ContentsOf(kids) == {kids[i] : i \in 1..Len(kids)} \ {PlainChild}

\* the entities f of Fresh are the entities of the world
Spawned(f) ==
    /\ view' = f.view
    /\ children' = f.children
    /\ content' = f.content
    /\ changed' = f.changed
    /\ top' = f.top
    /\ interaction' = f.interaction
    /\ added' = f.added
    /\ viewStyle' = f.viewStyle
    /\ nodeH' = f.nodeH
    /\ contentH' = f.contentH
    /\ grown' = f.grown
    /\ frameStart' = f.view
    /\ before' = [view |-> f.view, content |-> f.content]

\* the UI construction code spawns a ScrollView ahead of a frame: no child, a
\* child without ScrollableContent, or one or two ScrollableContent children;
\* with or without an Interaction of its own; the inverted scroll_speed is
\* given to the view with one content
SpawnScrollView ==
    /\ pc = "begin"
    /\ Views = {}
    /\ frame < MaxFrames
    /\ \E kids \in ChildSeqs : \E speed \in ScrollSpeeds :
       \E heights \in [ContentsOf(kids) -> ContentHs] :
       \E inter \in Interactions \cup {"Absent"} :
           /\ FSgn(speed) < 0 => kids = <<1>>
           /\ Spawned(Fresh(<<kids>>, <<speed>>, heights, <<inter>>))
    /\ frame' = frame + 1
    /\ dt' \in DTs
    /\ pc' = "create_scroll_view"
    /\ UNCHANGED <<libm, queued, cursor, touches, wheelTrace, prevPressed,
                   inputCount>>

\* the host before the Update schedule: clock, focus and layout of the frame;
\* the focus system writes the Interaction of the entities that have one
BeginFrame ==
    /\ pc = "begin"
    /\ frame < MaxFrames
    /\ frame' = frame + 1
    /\ dt' \in DTs
    /\ interaction' \in [Views -> Interactions \cup {"Absent"}]
    /\ \A v \in Views : interaction'[v] = "Absent" <=> interaction[v] = "Absent"
    /\ contentH' \in [Contents -> ContentHs]
    /\ grown' = (grown \/ \E v \in Views : \E i \in 1..Len(children[v]) :
                            /\ children[v][i] \in Contents
                            /\ FLt(nodeH[v], contentH'[children[v][i]]))
    /\ pc' = "create_scroll_view"
    /\ UNCHANGED <<libm, view, children, content, changed, top, added, queued,
                   viewStyle, nodeH, cursor, touches, wheelTrace,
                   before, frameStart, prevPressed, inputCount>>

\* lines 72-83: every ScrollView added since the system last ran gets its
\* four Style fields, and insert(Interaction::None) is queued for it; with
\* commands queued the schedule goes on to its sync point in a build that has
\* one, and to the next system in a build that has none
CreateScrollView ==
    /\ pc = "create_scroll_view"
    /\ viewStyle' = [v \in Views |->
                       IF added[v] THEN ScrollViewStyle(viewStyle[v])
                       ELSE viewStyle[v]]
    /\ queued' = queued \cup {v \in Views : added[v]}
    /\ added' = [v \in Views |-> FALSE]
    /\ before' = Snapshot
    /\ pc' \in IF queued' = {} THEN {"input_mouse_pressed_move"}
              ELSE {"apply_deferred", "input_mouse_pressed_move"}
    /\ UNCHANGED <<libm, view, children, content, changed, top, interaction, nodeH, contentH, dt, cursor, touches, wheelTrace, frameStart,
                   grown, prevPressed, frame, inputCount>>

\* line 81, when the queued commands are applied: the entity gets
\* Interaction::None, in place of the Interaction it had
ApplyDeferred(inter, q) ==
    [v \in DOMAIN inter |-> IF v \in q THEN "None" ELSE inter[v]]

\* lines 28-35, in a build whose chain() inserts a sync point after a system
\* with Commands: the queued commands are applied between create_scroll_view
\* and input_mouse_pressed_move
SyncPoint ==
    /\ pc = "apply_deferred"
    /\ interaction' = ApplyDeferred(interaction, queued)
    /\ queued' = {}
    /\ pc' = "input_mouse_pressed_move"
    /\ UNCHANGED <<libm, view, children, content, changed, top, added, viewStyle, nodeH, contentH, dt, cursor, touches, wheelTrace,
                   before, frameStart, grown, prevPressed, frame, inputCount>>

\* lines 85-116, the window's cursor position being pos
MouseStep(pos) ==
    /\ pc = "input_mouse_pressed_move"
    /\ cursor' = pos
    /\ view' = MouseSystem(view, pos)
    /\ content' = MouseContents(content, pos)
    /\ before' = Snapshot
    /\ pc' = "input_touch_pressed_move"
    /\ UNCHANGED <<libm, children, changed, top, interaction, added, queued, viewStyle, nodeH, contentH, dt, touches, wheelTrace,
                   frameStart, grown, prevPressed, frame, inputCount>>

\* the cursor outside the window (None) or at one of the heights
InputMousePressedMove ==
    \E pos \in {None} \cup {Some(y) : y \in CursorYs} : MouseStep(pos)

\* lines 118-142, the pressed touches' delta().y being ts
TouchStep(ts) ==
    /\ pc = "input_touch_pressed_move"
    /\ touches' = ts
    /\ inputCount' = inputCount + Len(ts)
    /\ view' = TouchSystem(view, ts)
    /\ content' = TouchContents(content, ts)
    /\ before' = Snapshot
    /\ cursor' = None
    /\ pc' = "scroll_events"
    /\ UNCHANGED <<libm, children, changed, top, interaction, added, queued, viewStyle, nodeH, contentH, dt, wheelTrace, frameStart, grown,
                   prevPressed, frame>>

\* any pressed touches the input budget still allows
InputTouchPressedMove ==
    \E ts \in SeqsUpTo(TouchDeltas, MaxInputEvents - inputCount) : TouchStep(ts)

\* lines 167-170: what the events evs wrote, trace being the contents after
\* each of them; the contents of the hovered views are marked changed
WheelWrites(trace, evs) ==
    /\ wheelTrace' = trace
    /\ inputCount' = inputCount + Len(evs)
    /\ content' = IF evs = <<>> THEN content ELSE trace[Len(trace)]
    /\ changed' = [c \in Contents |-> changed[c] \/ c \in WheelTouched(evs)]

\* lines 144-175, the MouseWheel events read being evs
WheelStep(evs) ==
    /\ pc = "scroll_events"
    /\ WheelWrites(WheelRun(content, evs), evs)
    /\ before' = Snapshot
    /\ touches' = <<>>
    /\ pc' = "fling_update"
    /\ UNCHANGED <<libm, view, children, top, interaction, added, queued, viewStyle, nodeH, contentH, dt, cursor, frameStart, grown,
                   prevPressed, frame>>

\* any MouseWheel events the input budget still allows
ScrollEvents ==
    \E evs \in SeqsUpTo(WheelEvents, MaxInputEvents - inputCount) : WheelStep(evs)

\* lines 193-197: what the pass r = [views, content, touched] wrote, the
\* contents it wrote marked changed
FlingWrites(r) ==
    /\ view' = r.views
    /\ content' = r.content
    /\ changed' = [c \in Contents |-> changed[c] \/ c \in r.touched]

\* lines 183-201
FlingUpdate ==
    /\ pc = "fling_update"
    /\ FlingWrites(FlingSystem([views |-> view, content |-> content,
                                touched |-> {}], 1))
    /\ before' = Snapshot
    /\ wheelTrace' = <<>>
    /\ pc' = "scroll_update"
    /\ UNCHANGED <<libm, children, top, interaction, added, queued, viewStyle, nodeH, contentH, dt, cursor, touches, frameStart,
                   grown, prevPressed, frame, inputCount>>

\* lines 177-181, the last system of the chain
ScrollUpdate ==
    /\ pc = "scroll_update"
    /\ top' = PublishTop(top, content, changed)
    /\ changed' = [c \in Contents |-> FALSE]
    /\ before' = Snapshot
    /\ frameStart' = view
    /\ prevPressed' = {v \in Views : interaction[v] = "Pressed"}
    /\ pc' = IF queued = {} THEN "begin" ELSE "end_of_schedule"
    /\ UNCHANGED <<libm, view, children, content, interaction, added, queued,
                   viewStyle, nodeH, contentH, dt, cursor, touches,
                   wheelTrace, grown, frame, inputCount>>

\* lines 25-36: when the Update schedule has run its last system it applies
\* the commands that are still queued, no sync point having applied them
EndOfSchedule ==
    /\ pc = "end_of_schedule"
    /\ interaction' = ApplyDeferred(interaction, queued)
    /\ queued' = {}
    /\ pc' = "begin"
    /\ UNCHANGED <<libm, view, children, content, changed, top, added, viewStyle, nodeH, contentH, dt, cursor, touches, wheelTrace,
                   before, frameStart, grown, prevPressed, frame, inputCount>>

\* lines 25-36: the systems are chained in this order
Next ==
    \/ SpawnScrollView
    \/ BeginFrame
    \/ CreateScrollView
    \/ SyncPoint
    \/ InputMousePressedMove
    \/ InputTouchPressedMove
    \/ ScrollEvents
    \/ FlingUpdate
    \/ ScrollUpdate
    \/ EndOfSchedule

Spec == Init /\ [][Next]_vars

\* ------------------------------------------------------------ properties
\* the ScrollableContent children of a view, as a set and in iteration order
Kids(v) == {children[v][i] : i \in 1..Len(children[v])} \cap Contents
ContentKids(v) == SelectSeq(children[v], LAMBDA c : c \in Contents)

\* the view's first content, the one integrated from the velocity the view had
\* when the pass began
FirstKid(v) == ContentKids(v)[1]

\* -max(H_c - H_v, 0) for content c of view v, from the heights of this frame
FreshBound(v, c) == FNeg(FMax(FSub(contentH[c], nodeH[v]), Zero))

\* a <= x <= b
Within(x, a, b) == FLe(a, x) /\ FLe(x, b)

\* the system that ran last
AfterMouse == pc = "input_touch_pressed_move"
AfterTouch == pc = "scroll_events"
AfterWheel == pc = "fling_update"
AfterFling == pc = "scroll_update"
FrameDone  == pc = "begin" /\ frame > 0

\* C1: in every reachable state each content's pos_y lies in [max_scroll, 0],
\* max_scroll being the field stored in its parent ScrollView.
C1_OffsetWithinStoredBounds ==
    \A v \in Views : \A c \in Kids(v) :
        Within(content[c].pos_y, view[v].max_scroll, Zero)

\* C2: after each single wheel event applied to a hovered ScrollView, the
\* content's pos_y lies in [-max(H_c - H_v, 0), 0] for the heights of that frame.
C2_WheelWithinFreshBounds ==
    \A i \in 1..Len(wheelTrace) : \A v \in WheelTargets(interaction) :
        \A c \in Kids(v) :
            Within(wheelTrace[i][c].pos_y, FreshBound(v, c), Zero)

\* two events on a hovered view: the first is cut off at the lower bound, the
\* second leaves the content strictly inside the range
C2_Witness ==
    /\ AfterWheel
    /\ Len(wheelTrace) = 2
    /\ \E v \in WheelTargets(interaction) : \E c \in Kids(v) :
         /\ before.content[c].pos_y = Zero
         /\ FLt(FreshBound(v, c), Zero)
         /\ wheelTrace[1][c].pos_y = FreshBound(v, c)
         /\ FLt(FreshBound(v, c), wheelTrace[2][c].pos_y)
         /\ FLt(wheelTrace[2][c].pos_y, Zero)

\* C3: whenever a ScrollView is not pressed on a frame, its old_mouse_y is None
\* once that frame's pointer sampler has run, cursor position available or not.
C3_AnchorNoneWhenNotPressed ==
    AfterMouse =>
        \A v \in Views : interaction[v] # "Pressed" => view[v].old_mouse_y = None

\* C4: on the first frame a ScrollView is sampled as pressed after a frame on
\* which it was not pressed, the pointer sampler uses delta = 0, so the
\* velocity it leaves is half the velocity it found.
C4_FirstPressedFrameZeroDelta ==
    (AfterMouse /\ cursor # None) =>
        \A v \in Views :
            (interaction[v] = "Pressed" /\ v \notin prevPressed) =>
                view[v].velocity = SmoothVelocity(before.view[v].velocity, Zero, dt)

\* once 0, velocity stays 0 until a pointer or touch sampler writes it on a
\* frame where the view is pressed
VelocityStaysZero(v) ==
    (before.view[v].velocity = Zero /\ view[v].velocity # Zero) =>
        ((AfterMouse \/ AfterTouch) /\ interaction[v] = "Pressed")

\* C5 as stated: for every ScrollView, |velocity| <= 16.0 when the fling
\* integrator runs gives velocity 0 after the pass, and 0 stays 0 until a drag
\* sampler writes it.
C5_StopThresholdEveryView ==
    \A v \in Views :
        /\ (AfterFling /\ FLe(FAbs(before.view[v].velocity), FlingThreshold)) =>
               view[v].velocity = Zero
        /\ VelocityStaysZero(v)

\* C5 amended: the same for every ScrollView that has at least one
\* ScrollableContent child.
C5_StopThresholdWithChild ==
    \A v \in Views :
        /\ (AfterFling /\ Kids(v) # {}
              /\ FLe(FAbs(before.view[v].velocity), FlingThreshold)) =>
               view[v].velocity = Zero
        /\ VelocityStaysZero(v)

\* a view with a child reached the integrator with velocity exactly 16.0
C5_Witness ==
    /\ AfterFling
    /\ \E v \in Views :
         /\ Kids(v) # {}
         /\ before.view[v].velocity = FlingThreshold
         /\ view[v].velocity = Zero

\* C6: for the same wheel event and frame time, scroll_speed = -s gives an
\* offset delta of the opposite sign to scroll_speed = s, for line-unit and
\* pixel-unit events alike.
C6_NegatedSpeedInverts ==
    pc = "scroll_events" =>
        \A v \in WheelTargets(interaction) : \A ev \in WheelEvents :
            FSgn(WheelDelta(ev, dt, FNeg(view[v].scroll_speed)))
                = -FSgn(WheelDelta(ev, dt, view[v].scroll_speed))

\* C7: on the frame a previously pressed ScrollView is no longer pressed, the
\* pointer sampler leaves velocity and max_scroll as they were (clearing only
\* old_mouse_y), and the fling integrator starts from the velocity the last
\* drag frame left.
C7_ReleaseKeepsVelocity ==
    \A v \in prevPressed :
        interaction[v] # "Pressed" =>
            /\ AfterMouse =>
                 /\ view[v].velocity = before.view[v].velocity
                 /\ view[v].max_scroll = before.view[v].max_scroll
                 /\ cursor # None => view[v].old_mouse_y = None
            /\ (AfterMouse \/ AfterTouch \/ AfterWheel) =>
                 /\ view[v].velocity = frameStart[v].velocity
                 /\ view[v].max_scroll = frameStart[v].max_scroll

\* a released view whose anchor was cleared reaches the integrator still moving
C7_Witness ==
    /\ AfterWheel
    /\ \E v \in prevPressed :
         /\ interaction[v] # "Pressed"
         /\ frameStart[v].old_mouse_y # None
         /\ view[v].old_mouse_y = None
         /\ FLt(FlingThreshold, FAbs(view[v].velocity))

\* C8: processing wheel events leaves every ScrollView's velocity, max_scroll
\* and old_mouse_y unchanged, and changes pos_y only for children of hovered
\* ScrollViews.
C8_WheelOnlyMovesHovered ==
    AfterWheel =>
        /\ view = before.view
        /\ \A c \in Contents :
             (\E i \in 1..Len(wheelTrace) : wheelTrace[i][c] # before.content[c]) =>
                 \E v \in Views : c \in Kids(v) /\ interaction[v] = "Hovered"
        /\ wheelTrace = <<>> => content = before.content

\* wheel events moved the content of a hovered view that carries momentum
C8_Witness ==
    /\ AfterWheel
    /\ \E v \in Views : \E c \in Kids(v) :
         /\ interaction[v] = "Hovered"
         /\ content[c].pos_y # before.content[c].pos_y
         /\ FLt(FlingThreshold, FAbs(view[v].velocity))

\* C9: at the end of every frame style.top of each content equals its pos_y.
C9_PublishedEqualsOffset ==
    FrameDone => \A c \in Contents : top[c] = Some(content[c].pos_y)

\* a frame ended with the content scrolled away from the origin and moving
C9_Witness ==
    /\ FrameDone
    /\ \E v \in Views : \E c \in Kids(v) :
         /\ FLt(content[c].pos_y, Zero)
         /\ view[v].velocity # Zero
         /\ top[c] = Some(content[c].pos_y)

\* C10: with one content child that has never been taller than the viewport,
\* pos_y is 0 throughout.
C10_ShortContentStaysAtZero ==
    ~grown =>
        \A v \in Views :
            Len(ContentKids(v)) = 1 =>
                /\ content[FirstKid(v)].pos_y = Zero
                /\ \A i \in 1..Len(wheelTrace) : wheelTrace[i][FirstKid(v)].pos_y = Zero

\* the integrator ran with a downward velocity above the threshold on such a view
C10_Witness ==
    /\ AfterFling
    /\ ~grown
    /\ \E v \in Views :
         /\ Len(ContentKids(v)) = 1
         /\ FLt(before.view[v].velocity, FNeg(FlingThreshold))
         /\ content[FirstKid(v)].pos_y = Zero

\* the view was processed as pressed by the system that ran last
SampledPressed(v) ==
    /\ InputQuery(v)
    /\ interaction[v] = "Pressed"
    /\ \/ AfterMouse /\ cursor # None
       \/ AfterTouch /\ touches # <<>>

\* C11: in every reachable state max_scroll <= 0; it is 0 until a drag sampler
\* writes it, and once a pointer or touch sampler has processed the view as
\* pressed it equals -max(H_c - H_v, 0) for the heights of that frame (the
\* lowest such bound when the view has several contents, 0 when it has none).
C11_MaxScrollRecomputed ==
    \A v \in Views :
        /\ FLe(view[v].max_scroll, Zero)
        /\ view[v].max_scroll # before.view[v].max_scroll =>
               ((AfterMouse \/ AfterTouch) /\ interaction[v] = "Pressed")
        /\ SampledPressed(v) =>
               /\ \A c \in Kids(v) : FLe(view[v].max_scroll, FreshBound(v, c))
               /\ \/ \E c \in Kids(v) : view[v].max_scroll = FreshBound(v, c)
                  \/ Kids(v) = {} /\ view[v].max_scroll = Zero

\* a drag frame on which the content is no longer taller than the viewport:
\* the bound of the frame before is dropped
C11_Witness ==
    /\ AfterMouse
    /\ \E v \in Views :
         /\ SampledPressed(v)
         /\ Len(ContentKids(v)) = 1
         /\ FLt(frameStart[v].max_scroll, Zero)
         /\ FLt(contentH[FirstKid(v)], nodeH[v])
         /\ view[v].max_scroll = Zero

\* the three frame times at which the fling step is evaluated, in ascending
\* order: 16 ms, 125 ms and 500 ms
FlingDTs == <<Secs(16), Secs(125), Secs(500)>>

\* e^(-friction * dt) and velocity / friction, friction the positive field
FlingDecay(vw, delta_t) == Exp(FNeg(FMul(vw.friction, delta_t)))
FlingReach(vw) == FDiv(vw.velocity, vw.friction)

\* velocity * decay, decay being e^(-friction*dt)
FlingLeft(vw, decay) == FMul(vw.velocity, decay)

\* offset + reach - reach * decay, evaluated from left to right, reach being
\* velocity/friction
FlingTo(p, reach, decay) == FSub(FAdd(p, reach), FMul(reach, decay))

\* what f32::exp can return for e^(-friction*dt) at the frame time delta_t
FlingDecays(vw, delta_t) == ExpValues(FNeg(FMul(vw.friction, delta_t)))

\* the displacement from p that the decay leads to
FlingMove(p, reach, decay) == FSub(FlingTo(p, reach, decay), p)

\* C12 as stated: when |velocity| > 16.0 the unclamped new offset is
\* offset - velocity/friction + (velocity/friction) * e^(-friction*dt), friction
\* the positive field, so the displacement has the sign of -velocity; the stored
\* offset is that value clamped into [max_scroll, 0].
C12_FlingStepAsStated ==
    AfterFling =>
        \A v \in Views :
            (Kids(v) # {} /\ FLt(FlingThreshold, FAbs(before.view[v].velocity))) =>
                LET b == before.view[v]
                    p == before.content[FirstKid(v)].pos_y
                    unclamped == FAdd(FSub(p, FlingReach(b)),
                                      FMul(FlingReach(b), FlingDecay(b, dt)))
                IN /\ content[FirstKid(v)].pos_y = Clamp(unclamped, b.max_scroll, Zero)
                   /\ FSgn(FSub(unclamped, p)) = -FSgn(b.velocity)

\* C12 amended: when |velocity| > 16.0 the unclamped new offset is
\* offset + velocity/friction - (velocity/friction) * e^(-friction*dt) and
\* velocity' = velocity * e^(-friction*dt), e^(-friction*dt) being what
\* f32::exp returns; the displacement has the sign of velocity, grows with dt
\* toward velocity/friction, and |velocity'| <= |velocity|.  At the frame
\* times of FlingDTs that holds of every value f32::exp can return.
C12_FlingStepFollowsVelocity ==
    AfterFling =>
        \A v \in Views :
            (Kids(v) # {} /\ FLt(FlingThreshold, FAbs(before.view[v].velocity))) =>
                LET b == before.view[v]
                    p == before.content[FirstKid(v)].pos_y
                    reach == FlingReach(b)
                    decay == FlingDecay(b, dt)
                    to == FlingTo(p, reach, decay)
                IN /\ FlingStep(p, b, dt) = <<to, FlingLeft(b, decay)>>
                   /\ content[FirstKid(v)].pos_y = Clamp(to, b.max_scroll, Zero)
                   /\ Len(ContentKids(v)) = 1 => view[v].velocity = FlingLeft(b, decay)
                   /\ FLe(FAbs(view[v].velocity), FAbs(b.velocity))
                   /\ FSgn(FSub(to, p)) = FSgn(b.velocity)
                   /\ decay \in FlingDecays(b, dt)
                   /\ \A i \in 1..Len(FlingDTs) :
                      \A e \in FlingDecays(b, FlingDTs[i]) :
                        /\ Integrated(p, b.velocity, FNeg(b.friction), e)
                             = <<FlingTo(p, reach, e), FlingLeft(b, e)>>
                        /\ FLe(FAbs(FlingLeft(b, e)), FAbs(b.velocity))
                        /\ FSgn(FlingMove(p, reach, e)) = FSgn(b.velocity)
                        /\ FLe(FAbs(FlingMove(p, reach, e)), FAbs(reach))
                        /\ i > 1 =>
                             \A e0 \in FlingDecays(b, FlingDTs[i - 1]) :
                                FLt(FAbs(FlingMove(p, reach, e0)),
                                    FAbs(FlingMove(p, reach, e)))

\* an upward fling inside the range: the first content moved up, unclamped
C12_Witness ==
    /\ AfterFling
    /\ \E v \in Views :
         /\ Kids(v) # {}
         /\ FLt(before.view[v].velocity, FNeg(FlingThreshold))
         /\ FLt(content[FirstKid(v)].pos_y, before.content[FirstKid(v)].pos_y)
         /\ FLt(view[v].max_scroll, content[FirstKid(v)].pos_y)
         /\ FLt(before.view[v].velocity, view[v].velocity)

\* ------------------------------------------------- two ScrollViews
\* two ScrollViews side by side, each with one ScrollableContent child
InitTwoViews ==
    \E heights \in [1..2 -> ContentHs] :
        LET f == Fresh(<<(<<1>>), (<<2>>)>>, <<FromInt(200), FromInt(200)>>,
                       heights, <<"None", "None">>)
        IN /\ view = f.view
           /\ children = f.children
           /\ content = f.content
           /\ changed = f.changed
           /\ top = f.top
           /\ interaction = f.interaction
           /\ added = f.added
           /\ queued = {}
           /\ viewStyle = f.viewStyle
           /\ nodeH = f.nodeH
           /\ contentH = f.contentH
           /\ grown = f.grown
           /\ frameStart = f.view
           /\ before = [view |-> f.view, content |-> f.content]
           /\ prevPressed = {}
           /\ dt \in DTs
           /\ cursor = None
           /\ touches = <<>>
           /\ wheelTrace = <<>>
           /\ pc = "begin"
           /\ frame = 0
           /\ inputCount = 0
           /\ libm \in Libms

\* the chain over the two views, followed for TwoViewFrames frames; no further
\* ScrollView is spawned
TwoViewFrames == 2
NextTwoViews ==
    \/ frame < TwoViewFrames /\ BeginFrame
    \/ CreateScrollView
    \/ SyncPoint
    \/ InputMousePressedMove
    \/ InputTouchPressedMove
    \/ ScrollEvents
    \/ FlingUpdate
    \/ ScrollUpdate
    \/ EndOfSchedule

SpecTwoViews == InitTwoViews /\ [][NextTwoViews]_vars

\* C13: no cross-talk between ScrollViews; with two views each pressed by a
\* different touch (touch i being the one on view i), the velocity a view has
\* after the touch sampler is the smoothing of its own touch's displacement
\* alone, and max_scroll is the bound of its own content.
C13_TouchUpdatesOwnViewOnly ==
    (AfterTouch /\ Len(touches) = 2 /\ Cardinality(Views) = 2
       /\ \A v \in Views : interaction[v] = "Pressed") =>
        \A v \in Views :
            /\ view[v].velocity = SmoothVelocity(before.view[v].velocity, touches[v], dt)
            /\ view[v].max_scroll = FreshBound(v, FirstKid(v))

\* C14: on a frame without a cursor position the pointer sampler leaves every
\* ScrollView as it was (old_mouse_y, velocity, max_scroll), pressed or not.
C14_NoCursorNoUpdate ==
    (AfterMouse /\ cursor = None) => view = before.view

\* a drag in progress, anchor set and velocity built up, on a frame without a
\* cursor position
C14_Witness ==
    /\ AfterMouse
    /\ cursor = None
    /\ \E v \in Views :
         /\ interaction[v] = "Pressed"
         /\ view[v].old_mouse_y # None
         /\ view[v].velocity # Zero

\* C15 as stated: the fling integrator takes no notice of the drag: for every
\* pressed ScrollView whose velocity after the samplers exceeds 16.0 in
\* magnitude, the pass advances and clamps pos_y and decays the velocity; when
\* it does not exceed 16.0 the velocity is set to 0 and pos_y is left alone.
C15_FlingIgnoresDragEveryView ==
    AfterFling =>
        \A v \in Views :
            interaction[v] = "Pressed" =>
                LET b == before.view[v]
                    decay == FlingDecay(b, dt)
                IN IF FLt(FlingThreshold, FAbs(b.velocity))
                   THEN /\ FLt(FAbs(view[v].velocity), FAbs(b.velocity))
                        /\ Kids(v) # {} =>
                             content[FirstKid(v)].pos_y =
                                 Clamp(FlingTo(before.content[FirstKid(v)].pos_y,
                                               FlingReach(b), decay),
                                       b.max_scroll, Zero)
                   ELSE /\ view[v].velocity = Zero
                        /\ \A c \in Kids(v) : content[c] = before.content[c]

\* C15 amended: the same for every pressed ScrollView that has at least one
\* ScrollableContent child; the velocity left is velocity * e^(-friction*dt)
\* when the view has one content.
C15_FlingIgnoresDragState ==
    AfterFling =>
        \A v \in Views :
            (interaction[v] = "Pressed" /\ Kids(v) # {}) =>
                LET b == before.view[v]
                    p == before.content[FirstKid(v)].pos_y
                    decay == FlingDecay(b, dt)
                IN IF FLt(FlingThreshold, FAbs(b.velocity))
                   THEN /\ content[FirstKid(v)].pos_y
                             = Clamp(FlingTo(p, FlingReach(b), decay), b.max_scroll, Zero)
                        /\ FLt(FAbs(view[v].velocity), FAbs(b.velocity))
                        /\ Len(ContentKids(v)) = 1 =>
                             view[v].velocity = FlingLeft(b, decay)
                   ELSE /\ view[v].velocity = Zero
                        /\ \A c \in Kids(v) : content[c] = before.content[c]

\* a pressed view dragged upward this frame: the integrator has already moved
\* the content and taken speed off
C15_Witness ==
    /\ AfterFling
    /\ \E v \in Views :
         /\ interaction[v] = "Pressed"
         /\ Kids(v) # {}
         /\ frameStart[v].velocity = Zero
         /\ FLt(before.view[v].velocity, FNeg(FlingThreshold))
         /\ FLt(content[FirstKid(v)].pos_y, before.content[FirstKid(v)].pos_y)
         /\ FLt(FAbs(view[v].velocity), FAbs(before.view[v].velocity))

\* the pixel-unit events of the input domain, and the frame times at which the
\* wheel delta is evaluated (0.016 s is the one of Scenario 3)
PixelEvents == {ev \in WheelEvents : ev.unit = "Pixel"}
WheelDTs == DTs \cup {Secs(16)}

\* f32::EPSILON, 2^-23, and a = b to within that part of |b|
Epsilon == F32(1, Hidden, 2 - 2 * MantBits)
NearlyEq(a, b) == FLe(FAbs(FSub(a, b)), FMul(FAbs(b), Epsilon))

\* Scenario 3: a pixel-unit event of magnitude 5, scroll_speed 200, dt 0.016
Scenario3Delta ==
    WheelDelta([unit |-> "Pixel", y |-> FromInt(5)], Secs(16), FromInt(200))
Scenario3Gives16 == NearlyEq(Scenario3Delta, FromInt(16))

C18_ChildrenShareVelocity ==
    AfterFling =>
        \A v \in Views :
            (Len(ContentKids(v)) > 1
               /\ FLt(FlingThreshold, FAbs(before.view[v].velocity))) =>
                LET b == before.view[v]
                    decay == FlingDecay(b, dt)
                IN /\ view[v].velocity = FlingLeft(b, decay)
                   /\ \A c \in Kids(v) :
                        content[c].pos_y =
                            Clamp(FlingTo(before.content[c].pos_y, FlingReach(b), decay),
                                  b.max_scroll, Zero)

\* C20: the pointer and touch samplers never write a content's pos_y; of a
\* ScrollView they change only old_mouse_y, velocity and max_scroll, so within
\* a frame pos_y changes only in scroll_events and fling_update.
C20_SamplersLeaveOffset ==
    /\ (AfterMouse \/ AfterTouch) =>
         /\ content = before.content
         /\ \A v \in Views :
              /\ view[v].scroll_speed = before.view[v].scroll_speed
              /\ view[v].friction = before.view[v].friction
    /\ content # before.content => (AfterWheel \/ AfterFling)

\* the pointer moved during a drag over content with room to scroll: the
\* velocity took the movement up, the content stayed where it was
C20_Witness ==
    /\ AfterMouse
    /\ \E v \in Views : \E c \in Kids(v) :
         /\ interaction[v] = "Pressed"
         /\ before.view[v].old_mouse_y # None
         /\ cursor # None
         /\ cursor # before.view[v].old_mouse_y
         /\ view[v].velocity # before.view[v].velocity
         /\ FLt(FreshBound(v, c), Zero)
         /\ content[c] = before.content[c]

\* ------------------------------------------- frames without fresh input
\* velocities and offsets a drag can have left behind
SettleVelocities == {FromInt(-200), FromInt(-17), FromInt(16), FromInt(200)}
SettleOffsets(hc) ==
    IF FLt(ViewportH, hc) THEN {Zero, FromInt(-100)} ELSE {Zero}

\* one ScrollView at the end of the last frame of a drag (so with a child and
\* an Interaction, long since seen by create_scroll_view): max_scroll as the
\* sampler resolved it, style.top published; from here on the view is either
\* held pressed with the pointer at rest or not pressed at all, and no
\* command is queued in any frame
InitSettle ==
    \E kids \in ChildSeqs \ {<<>>} :
    \E heights \in [ContentsOf(kids) -> ContentHs] :
    \E velocity \in SettleVelocities : \E anchor \in {None, Some(Zero)} :
    \E inter \in Interactions :
    \E offsets \in [ContentsOf(kids) -> {Zero, FromInt(-100)}] :
        /\ \A c \in ContentsOf(kids) : offsets[c] \in SettleOffsets(heights[c])
        /\ children = <<kids>>
        /\ view = <<[ScrollViewDefault(FromInt(200)) EXCEPT
                       !.old_mouse_y = anchor,
                       !.velocity = velocity,
                       !.max_scroll = ResolveMaxScroll(kids, ViewportH,
                                                       heights, Zero)]>>
        /\ content = [c \in ContentsOf(kids) |-> [pos_y |-> offsets[c]]]
        /\ changed = [c \in ContentsOf(kids) |-> FALSE]
        /\ top = [c \in ContentsOf(kids) |-> Some(offsets[c])]
        /\ interaction = <<inter>>
        /\ added = <<FALSE>>
        /\ queued = {}
        /\ viewStyle = <<ScrollViewStyle(StyleDefault)>>
        /\ prevPressed = {1}
        /\ nodeH = <<ViewportH>>
        /\ contentH = heights
        /\ frameStart = view
        /\ before = [view |-> view, content |-> content]
        /\ grown = \E c \in ContentsOf(kids) : FLt(ViewportH, heights[c])
        /\ dt \in DTs
        /\ cursor = None
        /\ touches = <<>>
        /\ wheelTrace = <<>>
        /\ pc = "begin"
        /\ frame = 0
        /\ inputCount = 0
        /\ libm \in Libms

\* the host before the Update schedule: a new frame time and layout, the focus
\* as it was
SettleBegin ==
    /\ pc = "begin"
    /\ dt' \in DTs
    /\ contentH' \in [Contents -> ContentHs]
    /\ grown' = (grown \/ \E v \in Views : \E c \in Kids(v) :
                            FLt(nodeH[v], contentH'[c]))
    /\ pc' = "create_scroll_view"
    /\ UNCHANGED <<libm, view, children, content, changed, top, interaction, added,
                   queued, viewStyle, nodeH, cursor, touches,
                   wheelTrace, before, frameStart, prevPressed, frame,
                   inputCount>>

\* the cursor rests where the drag anchor is
RestingCursor ==
    LET anchored == {v \in Views : view[v].old_mouse_y # None}
    IN IF anchored = {} THEN Some(Zero)
       ELSE view[CHOOSE v \in anchored : TRUE].old_mouse_y

\* the three input systems with the pointer at rest, no touch and no wheel event
SettleMouse == MouseStep(RestingCursor)
SettleTouch == TouchStep(<<>>)
SettleWheel == WheelStep(<<>>)

NextSettle ==
    \/ SettleBegin
    \/ CreateScrollView
    \/ SettleMouse
    \/ SettleTouch
    \/ SettleWheel
    \/ FlingUpdate
    \/ ScrollUpdate

\* lines 25-36: the system that follows in the chain when no command is
\* queued, the next frame beginning after the last
SystemAfter(p) ==
    CASE p = "begin" -> "create_scroll_view"
      [] p = "create_scroll_view" -> "input_mouse_pressed_move"
      [] p = "input_mouse_pressed_move" -> "input_touch_pressed_move"
      [] p = "input_touch_pressed_move" -> "scroll_events"
      [] p = "scroll_events" -> "fling_update"
      [] p = "fling_update" -> "scroll_update"
      [] p = "scroll_update" -> "begin"

\* the schedule moves on to its next system; every step of NextSettle is one
ScheduleRuns == pc' = SystemAfter(pc)

\* the host's loop runs the Update schedule on every frame and no system of the
\* chain blocks: the schedule is never left standing at a system
SpecSettle == InitSettle /\ [][NextSettle]_vars /\ WF_pc(ScheduleRuns)

\* the pointer sampler has processed the pressed view v with a pointer delta
\* of 0
ZeroDeltaSampled(v) ==
    /\ AfterMouse
    /\ cursor # None
    /\ interaction[v] = "Pressed"
    /\ MouseDelta(before.view[v].old_mouse_y, cursor[1]) = Zero

\* y is the f32 nearest to x / 2, ties to even: x / 2 itself unless x lies in
\* the lowest exponent range of f32 (|x| < 2^-125) with an odd significand,
\* where x / 2 is no f32 and y is its neighbour with an even significand
HalfOf(y, x) ==
    IF Expo(x) > MinExp \/ Mant(x) % 2 = 0 THEN FAdd(y, y) = x
    ELSE /\ Expo(y) = MinExp
         /\ FSgn(y) \in {0, FSgn(x)}
         /\ Abs(2 * Mant(y) - Mant(x)) = 1
         /\ Mant(y) % 2 = 0

\* C16 as stated: on every frame where a pressed ScrollView's pointer delta is
\* 0 the pointer sampler sets the velocity to exactly half its previous value.
C16_ZeroDeltaHalvesExactly ==
    \A v \in Views :
        ZeroDeltaSampled(v) =>
            FAdd(view[v].velocity, view[v].velocity) = before.view[v].velocity

\* during a frame of a held drag: the pointer sampler found a zero delta and
\* halved the velocity, and the velocity the integrator leaves is no larger in
\* magnitude than the one the frame began with
ZeroDeltaNeverAmplifies ==
    \A v \in Views :
        /\ ZeroDeltaSampled(v) => HalfOf(view[v].velocity, before.view[v].velocity)
        /\ (AfterFling /\ interaction[v] = "Pressed") =>
               FLe(FAbs(view[v].velocity), FAbs(frameStart[v].velocity))

\* C16 amended: on every frame where a pressed ScrollView's pointer delta is 0
\* the pointer sampler sets the velocity to velocity / 2.0 in f32: exactly half
\* of every velocity that has a half in f32 (all but those of magnitude below
\* 2^-125 with an odd significand), else the f32 nearest to the half; over
\* a run of such frames |velocity| at the end of a frame never exceeds
\* |velocity| at its start, and the velocity reaches 0.
C16_ZeroDeltaDecays ==
    /\ []ZeroDeltaNeverAmplifies
    /\ <>[](\A v \in Views : interaction[v] = "Pressed" => view[v].velocity = Zero)

\* a held drag, the velocity just halved from 200 to 100 by a zero delta
C16_Witness ==
    /\ \E v \in Views :
         /\ ZeroDeltaSampled(v)
         /\ cursor = before.view[v].old_mouse_y
         /\ before.view[v].velocity = FromInt(200)
         /\ view[v].velocity = FromInt(100)

\* the views C19 is about: not pressed, with at least one ScrollableContent
Idle(v) == interaction[v] # "Pressed" /\ Kids(v) # {}

\* C19: a ScrollView with friction > 0 and at least one ScrollableContent child
\* that is no longer pressed and gets no drag, touch or wheel input has, under
\* frames with dt > 0, velocity exactly 0 from some frame on, and once the
\* velocity is 0 pos_y never changes again.
C19_FlingTerminates ==
    /\ <>[](\A v \in Views : Idle(v) => view[v].velocity = Zero)
    /\ [][\A v \in Views :
            (Idle(v) /\ view[v].velocity = Zero) =>
                \A c \in Kids(v) : content'[c] = content[c]]_vars

\* a released view in mid-fling: above the threshold before the pass, the
\* content moved, and still above the threshold after it
C19_Witness ==
    /\ AfterFling
    /\ \E v \in Views :
         /\ Idle(v)
         /\ FLt(Zero, view[v].friction)
         /\ FLt(Zero, dt)
         /\ before.view[v].velocity = FromInt(-200)
         /\ FLt(FlingThreshold, FAbs(view[v].velocity))
         /\ FLt(content[FirstKid(v)].pos_y, before.content[FirstKid(v)].pos_y)
====
